---- MODULE Spec2Model ----
(***************************************************************************)
(* A model of the JONX / JSON++ codec: type detection, column packing,     *)
(* the binary container written by encode_to_bytes and the reader          *)
(* decode_from_bytes.                                                      *)
(*                                                                         *)
(* Bytes are naturals 0..255 and a buffer is a sequence of bytes.  A       *)
(* Python str (a field name, a string cell) is a sequence of code points.  *)
(* A JSON value is a tagged tuple:                                         *)
(*    <<"null">>  <<"bool", b>>  <<"int", n>>  <<"float", num, den>>       *)
(*    <<"str", cps>>  <<"list", vals>>  <<"obj", <<<<key, val>>, ...>>>>   *)
(* A float is the reduced fraction num/den (den > 0) of the decimal or     *)
(* binary value it stands for.  A record (a Python dict) is the ordered    *)
(* sequence of its <<key, value>> items.                                   *)
(***************************************************************************)
EXTENDS Integers, Sequences, FiniteSets, TLC

VARIABLES
    json_data,   \* the record list handed to encode_to_bytes
    encoded,     \* what encode_to_bytes did with it: [err, out, work]
    data,        \* the buffer handed to decode_from_bytes
    result,      \* what decode_from_bytes did with it
    pc,          \* "input" | "encoded" | "decoded" | "previewed" | "opened"
    tamper,      \* how the buffer differs from what the encoder wrote
    preview_result, \* what preview did with json_data
    file,        \* the JONXFile built on the buffer, or the exception
    decompressed,\* the fields whose column block the file has decompressed
    answer,      \* the last get_column / find_min call and what it gave
    values,      \* a column handed to detect_type / pack_column
    col_type,    \* detect_type(values), or the error it raised
    packed,      \* pack_column(values, col_type): [err, blob]
    unpacked,    \* the decoder's unpacking of that blob: [err, col]
    sorted_idx,  \* the index the encoder builds for the column
    cpc          \* "col" | "typed" | "packed" | "unpacked"

vars == <<json_data, encoded, data, result, pc,
          tamper, preview_result, file, decompressed, answer,
          values, col_type, packed, unpacked, sorted_idx, cpc>>

\* ------------------------------------------------------------------ bounds
MaxRows == 2
MaxLen == 3
MaxCalls == 2

\* ------------------------------------------------------- generic helpers
RECURSIVE Pow2(_)
Pow2(n) == IF n = 0 THEN 1 ELSE 2 * Pow2(n - 1)

Min2(a, b) == IF a < b THEN a ELSE b
Max2(a, b) == IF a > b THEN a ELSE b

RECURSIVE Gcd(_, _)
Gcd(a, b) == IF b = 0 THEN a ELSE Gcd(b, a % b)

Abs(n) == IF n < 0 THEN -n ELSE n

\* Python's data[a:b] for 0 <= a: clamped to the buffer, never an error.
Slice(s, a, b) ==
    LET lo == Min2(a, Len(s))
        hi == Min2(Max2(b, lo), Len(s))
    IN  IF hi <= lo THEN <<>> ELSE SubSeq(s, lo + 1, hi)

RECURSIVE Flatten(_)
Flatten(ss) == IF ss = <<>> THEN <<>> ELSE Head(ss) \o Flatten(Tail(ss))

\* struct.pack("I", n), little-endian, 0 <= n < 2^31.
PackU32(n) ==
    <<n % 256, (n \div 256) % 256, (n \div 65536) % 256, (n \div 16777216) % 256>>

\* struct.unpack("I", b)[0]: needs exactly four bytes (struct.error otherwise).
\* TLC's integers are 32-bit signed, so a value of 2^31 or more is
\* held as the largest integer; it is only ever compared with buffer lengths.
UnpackU32(b) ==
    IF Len(b) # 4 THEN [err |-> "struct.error", val |-> 0]
    ELSE IF b[4] >= 128 THEN [err |-> "none", val |-> 2147483647]
    ELSE [err |-> "none",
          val |-> b[1] + 256 * b[2] + 65536 * b[3] + 16777216 * b[4]]

\* ---------------------------------------------------------------- values
JNull == <<"null">>
JBool(b) == <<"bool", b>>
JInt(n) == <<"int", n>>
JStr(cps) == <<"str", cps>>
JList(vs) == <<"list", vs>>
JObj(items) == <<"obj", items>>

\* A float from a fraction, reduced: 10.5 is JFloat(21, 2).
JFloat(n, d) ==
    LET g == Gcd(Abs(n), d)
    IN  IF n = 0 THEN <<"float", 0, 1>> ELSE <<"float", n \div g, d \div g>>

Kind(v) == v[1]
IsBool(v) == Kind(v) = "bool"
IsInt(v) == Kind(v) = "int"
IsFloat(v) == Kind(v) = "float"
IsStr(v) == Kind(v) = "str"
\* Python's numbers: bool is a subclass of int.
IsNumber(v) == Kind(v) \in {"bool", "int", "float"}

\* A number as the fraction <<num, den>>; True is 1 and False is 0.
Num(v) == IF IsFloat(v) THEN v[2]
          ELSE IF IsBool(v) THEN (IF v[2] THEN 1 ELSE 0)
          ELSE v[2]
Den(v) == IF IsFloat(v) THEN v[3] ELSE 1

\* Python's a < b and a <= b on two numbers, without a product that
\* leaves 32 bits: whole parts first, then the fractional parts.  A float
\* of den 0 is an infinity.
NumLess(a, b) ==
    LET qa == IF Den(a) = 0 THEN Num(a) * 2147483647 ELSE Num(a) \div Den(a)
        qb == IF Den(b) = 0 THEN Num(b) * 2147483647 ELSE Num(b) \div Den(b)
        ra == IF Den(a) = 0 THEN 0 ELSE Num(a) % Den(a)
        rb == IF Den(b) = 0 THEN 0 ELSE Num(b) % Den(b)
    IN  \/ qa < qb
        \/ qa = qb /\ ra * Den(b) < rb * Den(a)

\* Two numbers are equal when their reduced fractions are the same.
NumEq(a, b) == Num(a) = Num(b) /\ Den(a) = Den(b)
NumLeq(a, b) == ~NumLess(b, a)

\* Python's == on two JSON values: numbers compare by value (True == 1,
\* 1 == 1.0), everything else by structure.
RECURSIVE PyEq(_, _)
PyEq(a, b) ==
    IF IsNumber(a) /\ IsNumber(b) THEN NumEq(a, b)
    ELSE IF Kind(a) # Kind(b) THEN FALSE
    ELSE IF Kind(a) = "null" THEN TRUE
    ELSE IF Kind(a) = "str" THEN a[2] = b[2]
    ELSE IF Kind(a) = "list" THEN
        /\ Len(a[2]) = Len(b[2])
        /\ \A i \in 1..Len(a[2]) : PyEq(a[2][i], b[2][i])
    ELSE
        /\ Len(a[2]) = Len(b[2])
        /\ \A i \in 1..Len(a[2]) :
              /\ a[2][i][1] = b[2][i][1]
              /\ PyEq(a[2][i][2], b[2][i][2])

\* ------------------------------------------------------ orjson.dumps
RECURSIVE Digits(_)
Digits(n) == IF n < 10 THEN <<48 + n>> ELSE Digits(n \div 10) \o <<48 + (n % 10)>>

IntText(n) == IF n < 0 THEN <<45>> \o Digits(-n) ELSE Digits(n)

\* The digits after the decimal point of r/d (0 <= r < d), by long division.
RECURSIVE FracDigits(_, _)
FracDigits(r, d) ==
    IF r = 0 THEN <<>>
    ELSE <<48 + ((10 * r) \div d)>> \o FracDigits((10 * r) % d, d)

FloatText(n, d) ==
    LET a == Abs(n)
        frac == FracDigits(a % d, d)
    IN  (IF n < 0 THEN <<45>> ELSE <<>>)
        \o Digits(a \div d) \o <<46>>
        \o (IF frac = <<>> THEN <<48>> ELSE frac)

\* str.encode("utf-8") of one code point (below 2^16).
Utf8Char(cp) ==
    IF cp < 128 THEN <<cp>>
    ELSE IF cp < 2048 THEN <<192 + (cp \div 64), 128 + (cp % 64)>>
    ELSE <<224 + (cp \div 4096), 128 + ((cp \div 64) % 64), 128 + (cp % 64)>>

RECURSIVE Utf8(_)
Utf8(cps) == IF cps = <<>> THEN <<>> ELSE Utf8Char(Head(cps)) \o Utf8(Tail(cps))

\* A JSON string body: the quote and the backslash are escaped.
RECURSIVE StrBody(_)
StrBody(cps) ==
    IF cps = <<>> THEN <<>>
    ELSE (IF Head(cps) \in {34, 92} THEN <<92, Head(cps)>> ELSE Utf8Char(Head(cps)))
         \o StrBody(Tail(cps))

StrText(cps) == <<34>> \o StrBody(cps) \o <<34>>

\* orjson.dumps: compact JSON text, no spaces.
RECURSIVE Dumps(_), DumpsList(_), DumpsItems(_)
DumpsList(vs) ==
    IF vs = <<>> THEN <<>>
    ELSE Dumps(Head(vs))
         \o (IF Len(vs) > 1 THEN <<44>> ELSE <<>>) \o DumpsList(Tail(vs))

DumpsItems(items) ==
    IF items = <<>> THEN <<>>
    ELSE StrText(Head(items)[1]) \o <<58>> \o Dumps(Head(items)[2])
         \o (IF Len(items) > 1 THEN <<44>> ELSE <<>>) \o DumpsItems(Tail(items))

Dumps(v) ==
    IF Kind(v) = "null" THEN <<110, 117, 108, 108>>
    ELSE IF Kind(v) = "bool" THEN
        (IF v[2] THEN <<116, 114, 117, 101>> ELSE <<102, 97, 108, 115, 101>>)
    ELSE IF Kind(v) = "int" THEN IntText(v[2])
    ELSE IF Kind(v) = "float" THEN FloatText(v[2], v[3])
    ELSE IF Kind(v) = "str" THEN StrText(v[2])
    ELSE IF Kind(v) = "list" THEN <<91>> \o DumpsList(v[2]) \o <<93>>
    ELSE <<123>> \o DumpsItems(v[2]) \o <<125>>

\* ------------------------------------------------------ orjson.loads
\* A recursive-descent reader of the same JSON text.  A parse step yields
\* [ok, val, pos]: the value and the position after it.
ParseFail == [ok |-> FALSE, val |-> JNull, pos |-> 0]
ParseOk(v, p) == [ok |-> TRUE, val |-> v, pos |-> p]

At(s, i) == IF i >= 1 /\ i <= Len(s) THEN s[i] ELSE -1
IsDigit(c) == c >= 48 /\ c <= 57
IsCont(c) == c >= 128 /\ c <= 191

RECURSIVE SkipWs(_, _)
SkipWs(s, i) == IF At(s, i) \in {32, 9, 10, 13} THEN SkipWs(s, i + 1) ELSE i

RECURSIVE DigitEnd(_, _)
DigitEnd(s, i) == IF IsDigit(At(s, i)) THEN DigitEnd(s, i + 1) ELSE i

\* The number written by the digits s[i..j-1].
RECURSIVE DigitsValue(_, _, _)
DigitsValue(s, i, j) ==
    IF i >= j THEN 0 ELSE 10 * DigitsValue(s, i, j - 1) + (s[j - 1] - 48)

Pow10(n) == IF n = 0 THEN 1 ELSE IF n = 1 THEN 10 ELSE IF n = 2 THEN 100
            ELSE IF n = 3 THEN 1000 ELSE 10000

\* -?digits, or -?digits.digits (at most four of them: the model's floats);
\* a number of more than nine digits does not fit TLC's integers
\* and is refused.
ParseNumber(s, i) ==
    LET neg == At(s, i) = 45
        a == IF neg THEN i + 1 ELSE i
        b == DigitEnd(s, a)
        hasFrac == At(s, b) = 46
        c == IF hasFrac THEN DigitEnd(s, b + 1) ELSE b
        whole == DigitsValue(s, a, b)
        k == c - (b + 1)
        fracv == DigitsValue(s, b + 1, c)
        sign == IF neg THEN -1 ELSE 1
    IN  IF b = a \/ b - a > 9 THEN ParseFail
        ELSE IF b - a > 1 /\ s[a] = 48 THEN ParseFail
        ELSE IF ~hasFrac THEN
            (IF At(s, b) \in {101, 69} THEN ParseFail
             ELSE ParseOk(JInt(sign * whole), b))
        ELSE IF k < 1 \/ k > 4 \/ b - a > 5 \/ At(s, c) \in {101, 69} THEN ParseFail
        ELSE ParseOk(JFloat(sign * (whole * Pow10(k) + fracv), Pow10(k)), c)

\* The body of a string from position i (after the opening quote) to the
\* closing quote: UTF-8 decoded to code points.
RECURSIVE ParseStrBody(_, _, _)
ParseStrBody(s, i, acc) ==
    LET c == At(s, i)
    IN  IF c = 34 THEN ParseOk(acc, i + 1)
        ELSE IF c < 32 THEN ParseFail
        ELSE IF c = 92 THEN
            (IF At(s, i + 1) \in {34, 92}
             THEN ParseStrBody(s, i + 2, Append(acc, s[i + 1]))
             ELSE ParseFail)
        ELSE IF c < 128 THEN ParseStrBody(s, i + 1, Append(acc, c))
        ELSE IF c >= 194 /\ c <= 223 /\ IsCont(At(s, i + 1)) THEN
            ParseStrBody(s, i + 2, Append(acc, (c - 192) * 64 + (s[i + 1] - 128)))
        ELSE IF c >= 224 /\ c <= 239 /\ IsCont(At(s, i + 1)) /\ IsCont(At(s, i + 2)) THEN
            ParseStrBody(s, i + 3,
                Append(acc, (c - 224) * 4096 + (s[i + 1] - 128) * 64 + (s[i + 2] - 128)))
        ELSE ParseFail

IsLiteral(s, i, lit) == Slice(s, i - 1, i - 1 + Len(lit)) = lit

RECURSIVE ParseValue(_, _), ParseElems(_, _, _), ParseItems(_, _, _)
ParseValue(s, i0) ==
    LET i == SkipWs(s, i0)
        c == At(s, i)
    IN  IF c = 110 THEN
            (IF IsLiteral(s, i, <<110, 117, 108, 108>>)
             THEN ParseOk(JNull, i + 4) ELSE ParseFail)
        ELSE IF c = 116 THEN
            (IF IsLiteral(s, i, <<116, 114, 117, 101>>)
             THEN ParseOk(JBool(TRUE), i + 4) ELSE ParseFail)
        ELSE IF c = 102 THEN
            (IF IsLiteral(s, i, <<102, 97, 108, 115, 101>>)
             THEN ParseOk(JBool(FALSE), i + 5) ELSE ParseFail)
        ELSE IF c = 34 THEN
            (LET r == ParseStrBody(s, i + 1, <<>>)
             IN  IF r.ok THEN ParseOk(JStr(r.val), r.pos) ELSE ParseFail)
        ELSE IF c = 91 THEN
            (IF At(s, SkipWs(s, i + 1)) = 93
             THEN ParseOk(JList(<<>>), SkipWs(s, i + 1) + 1)
             ELSE ParseElems(s, i + 1, <<>>))
        ELSE IF c = 123 THEN
            (IF At(s, SkipWs(s, i + 1)) = 125
             THEN ParseOk(JObj(<<>>), SkipWs(s, i + 1) + 1)
             ELSE ParseItems(s, i + 1, <<>>))
        ELSE IF c = 45 \/ IsDigit(c) THEN ParseNumber(s, i)
        ELSE ParseFail

ParseElems(s, i, acc) ==
    LET r == ParseValue(s, i)
        j == IF r.ok THEN SkipWs(s, r.pos) ELSE 0
    IN  IF ~r.ok THEN ParseFail
        ELSE IF At(s, j) = 44 THEN ParseElems(s, j + 1, Append(acc, r.val))
        ELSE IF At(s, j) = 93 THEN ParseOk(JList(Append(acc, r.val)), j + 1)
        ELSE ParseFail

ParseItems(s, i0, acc) ==
    LET i == SkipWs(s, i0)
        k == IF At(s, i) = 34 THEN ParseStrBody(s, i + 1, <<>>) ELSE ParseFail
        colon == IF k.ok THEN SkipWs(s, k.pos) ELSE 0
        r == IF k.ok /\ At(s, colon) = 58 THEN ParseValue(s, colon + 1) ELSE ParseFail
        j == IF r.ok THEN SkipWs(s, r.pos) ELSE 0
    IN  IF ~r.ok THEN ParseFail
        ELSE IF At(s, j) = 44 THEN ParseItems(s, j + 1, Append(acc, <<k.val, r.val>>))
        ELSE IF At(s, j) = 125 THEN ParseOk(JObj(Append(acc, <<k.val, r.val>>)), j + 1)
        ELSE ParseFail

\* orjson.loads(b): the whole buffer is one JSON value, or JSONDecodeError.
WholeInput(b, r) ==
    IF r.ok /\ SkipWs(b, r.pos) = Len(b) + 1
    THEN [err |-> "none", val |-> r.val]
    ELSE [err |-> "JSONDecodeError", val |-> JNull]

Loads(b) == WholeInput(b, ParseValue(b, 1))

\* ------------------------------------------------- zstd (CompressionAdapter)
\* ZSTD.compress(blob): one zstd frame.  The frame modelled is the one zstd
\* writes for input it cannot shrink: magic, frame header descriptor
\* (single segment, one-byte content size), the content size, and one last
\* raw block holding the blob.  Blobs are shorter than 256 bytes here.
ZstdMagic == <<40, 181, 47, 253>>
ZstdSingleSegment == 32

RawBlockHeader(n) ==
    LET h == 8 * n + 1
    IN  <<h % 256, (h \div 256) % 256, (h \div 65536) % 256>>

Compress(blob) ==
    ZstdMagic \o <<ZstdSingleSegment, Len(blob)>> \o RawBlockHeader(Len(blob)) \o blob

\* ZstdDecompressor().decompress(frame): the content size is read from the
\* frame header (an error when the header is cut or the magic is wrong); a
\* frame of content size 0 yields b"" at once; otherwise the frame must be
\* whole.  Bytes after a whole frame are ignored.
Decompress(frame) ==
    LET n == frame[6]
    IN  IF Len(frame) < 6 \/ Slice(frame, 0, 4) # ZstdMagic
           \/ frame[5] # ZstdSingleSegment
        THEN [err |-> "ZstdError", blob |-> <<>>]
        ELSE IF n = 0 THEN [err |-> "none", blob |-> <<>>]
        ELSE IF Len(frame) < 9 + n \/ Slice(frame, 6, 9) # RawBlockHeader(n)
        THEN [err |-> "ZstdError", blob |-> <<>>]
        ELSE [err |-> "none", blob |-> Slice(frame, 9, 9 + n)]

\* --------------------------------------------- IEEE-754 binary16 / binary32
\* floor(log2(n/d)) for n/d > 0.
RECURSIVE ExpUp(_, _, _)
ExpUp(n, d, e) == IF d * Pow2(e + 1) <= n THEN ExpUp(n, d, e + 1) ELSE e
RECURSIVE ExpDown(_, _, _)
ExpDown(n, d, k) == IF n * Pow2(k) >= d THEN k ELSE ExpDown(n, d, k + 1)
FloorLog2(n, d) == IF n >= d THEN ExpUp(n, d, 0) ELSE -ExpDown(n, d, 1)

\* floor(n * 2^s / d) and the remainder, by long division: <<quotient, rem>>.
RECURSIVE ShiftDiv(_, _, _)
ShiftDiv(qr, d, s) ==
    IF s = 0 THEN qr
    ELSE ShiftDiv(<<2 * qr[1] + ((2 * qr[2]) \div d), (2 * qr[2]) % d>>, d, s - 1)

\* n/d >= 0 rounded to nearest, ties to even, to a significand of at most
\* P bits: <<m, qe>> with value m * 2^qe, qe >= qmin (below that the
\* format's subnormals lose bits).
RoundQuotient(qr, D, P, qe) ==
    LET up == \/ 2 * qr[2] > D
              \/ 2 * qr[2] = D /\ qr[1] % 2 = 1
        m == IF up THEN qr[1] + 1 ELSE qr[1]
    IN  IF m = Pow2(P) THEN <<Pow2(P - 1), qe + 1>> ELSE <<m, qe>>

QuantizeAt(n, d, P, qe) ==
    IF qe >= 0
    THEN RoundQuotient(<<n \div (d * Pow2(qe)), n % (d * Pow2(qe))>>, d * Pow2(qe), P, qe)
    ELSE RoundQuotient(ShiftDiv(<<n \div d, n % d>>, d, -qe), d, P, qe)

Quantize(n, d, P, qmin) ==
    IF n = 0 THEN <<0, qmin>>
    ELSE QuantizeAt(n, d, P, Max2(FloorLog2(n, d) - (P - 1), qmin))

\* The value m * 2^qe with its sign, as a float; den 0 stands for infinity.
BinValue(neg, m, qe) ==
    LET sm == IF neg THEN -m ELSE m
    IN  IF qe >= 0 THEN JFloat(sm * Pow2(qe), 1) ELSE JFloat(sm, Pow2(-qe))

Infinity(neg) == <<"float", IF neg THEN -1 ELSE 1, 0>>

\* The binary16 bit pattern of the significand and exponent q, two bytes
\* little-endian; an exponent beyond the format's is an infinity.
F16Pattern(neg, q) ==
    LET E == IF q[1] < 1024 THEN 0 ELSE q[2] + 25
        bits == IF E >= 31 THEN 31 * 1024
                ELSE E * 1024 + (IF E = 0 THEN q[1] ELSE q[1] - 1024)
    IN  <<bits % 256, (IF neg THEN 128 ELSE 0) + (bits \div 256)>>

\* numpy: one value as float16.
F16Bytes(v) == F16Pattern(Num(v) < 0, Quantize(Abs(Num(v)), Den(v), 11, -24))

\* numpy: two bytes as float16, widened (exactly) to float32 and to a float.
F16Value(b) ==
    LET neg == b[2] >= 128
        bits == (b[2] % 128) * 256 + b[1]
        E == bits \div 1024
        frac == bits % 1024
    IN  IF E = 31 THEN Infinity(neg)
        ELSE IF E = 0 THEN BinValue(neg, frac, -24)
        ELSE BinValue(neg, 1024 + frac, E - 25)

\* The binary32 bit pattern of the significand and exponent q, four bytes
\* little-endian.
F32Pattern(neg, q) ==
    LET E == IF q[1] < 8388608 THEN 0 ELSE q[2] + 150
        frac == IF E = 0 THEN q[1] ELSE q[1] - 8388608
    IN  <<frac % 256, (frac \div 256) % 256,
          (E % 2) * 128 + (frac \div 65536),
          (IF neg THEN 128 ELSE 0) + (E \div 2)>>

\* struct.pack("f", v): binary32.
F32Bytes(v) == F32Pattern(Num(v) < 0, Quantize(Abs(Num(v)), Den(v), 24, -149))

\* struct.unpack("f", b): the binary32 value as a float.
F32Value(b) ==
    LET neg == b[4] >= 128
        E == (b[4] % 128) * 2 + (b[3] \div 128)
        frac == (b[3] % 128) * 65536 + b[2] * 256 + b[1]
    IN  IF E = 255 THEN Infinity(neg)
        ELSE IF E = 0 THEN BinValue(neg, frac, -149)
        ELSE BinValue(neg, 8388608 + frac, E - 150)

\* struct.pack("h", n) / ("i", n): two's complement, little-endian.
I16Bytes(n) ==
    LET u == IF n < 0 THEN n + 65536 ELSE n
    IN  <<u % 256, u \div 256>>
I16Value(b) ==
    LET u == b[1] + 256 * b[2]
    IN  IF u >= 32768 THEN u - 65536 ELSE u
I32Bytes(n) ==
    LET u == IF n < 0 THEN (n + 1) + 2147483647 ELSE n
    IN  <<u % 256, (u \div 256) % 256, (u \div 65536) % 256,
          (u \div 16777216) + (IF n < 0 THEN 128 ELSE 0)>>
I32Value(b) ==
    LET low == b[1] + 256 * b[2] + 65536 * b[3] + 16777216 * (b[4] % 128)
    IN  IF b[4] >= 128 THEN (low - 2147483647) - 1 ELSE low

\* ------------------------------------------------------- TypeDetector
MIN_I16 == -32768
MAX_I16 == 32767
MIN_F16 == -65504
MAX_F16 == 65504

RECURSIVE MinOf(_)
MinOf(vs) ==
    IF Len(vs) = 1 THEN vs[1]
    ELSE LET m == MinOf(Tail(vs))
         IN  IF NumLess(m, vs[1]) THEN m ELSE vs[1]

RECURSIVE MaxOf(_)
MaxOf(vs) ==
    IF Len(vs) = 1 THEN vs[1]
    ELSE LET m == MaxOf(Tail(vs))
         IN  IF NumLess(vs[1], m) THEN m ELSE vs[1]

InI16(v) == NumLeq(JInt(MIN_I16), v) /\ NumLeq(v, JInt(MAX_I16))

\* detect_numeric_type_int: min() and max() compare every value with a
\* number, which is a TypeError on a value that is no number.
detect_numeric_type_int(vs) ==
    IF \E i \in 1..Len(vs) : ~IsNumber(vs[i]) THEN "TypeError"
    ELSE IF InI16(MinOf(vs)) /\ InI16(MaxOf(vs)) THEN "int16"
    ELSE "int32"

\* Python's round(v, 3): an int stays itself; a float goes to the nearest
\* multiple of 1/1000.  (A decimal tie is rounded to even here; Python
\* rounds it by the binary value.  Either way the result differs from v.)
Round3(v) ==
    IF ~IsFloat(v) THEN v
    ELSE LET q == v[2] \div v[3]
             t == 1000 * (v[2] % v[3])
             k0 == t \div v[3]
             rem == t % v[3]
             up == 2 * rem > v[3] \/ (2 * rem = v[3] /\ k0 % 2 = 1)
         IN  JFloat(1000 * q + k0 + (IF up THEN 1 ELSE 0), 1000)

InF16Range(v) == NumLeq(JInt(MIN_F16), v) /\ NumLeq(v, JInt(MAX_F16))

\* (The float detector without its range test.)
RECURSIVE detect_numeric_type_float_norange(_)
detect_numeric_type_float_norange(vs) ==
    IF vs = <<>> THEN "float16"
    ELSE IF ~IsNumber(Head(vs)) THEN "TypeError"
    ELSE IF ~PyEq(Round3(Head(vs)), Head(vs)) THEN "float32"
    ELSE detect_numeric_type_float_norange(Tail(vs))

\* detect_numeric_type_float: the loop over the values, left to right.
RECURSIVE detect_numeric_type_float(_)
detect_numeric_type_float(vs) ==
    IF vs = <<>> THEN "float16"
    ELSE IF ~IsNumber(Head(vs)) THEN "TypeError"
    ELSE IF ~InF16Range(Head(vs)) THEN "float32"
    ELSE IF ~PyEq(Round3(Head(vs)), Head(vs)) THEN "float32"
    ELSE detect_numeric_type_float(Tail(vs))

\* (detect_type with the int test first: a bool is an int in Python.)
detect_type_int_first(vs) ==
    IF vs = <<>> THEN "IndexError"
    ELSE IF IsInt(vs[1]) \/ IsBool(vs[1]) THEN detect_numeric_type_int(vs)
    ELSE IF IsFloat(vs[1]) THEN detect_numeric_type_float(vs)
    ELSE IF IsStr(vs[1]) THEN "str"
    ELSE "json"

\* detect_type: by the first element; values[0] of an empty column is an
\* IndexError.
detect_type(vs) ==
    IF vs = <<>> THEN "IndexError"
    ELSE IF IsBool(vs[1]) THEN "bool"
    ELSE IF IsInt(vs[1]) THEN detect_numeric_type_int(vs)
    ELSE IF IsFloat(vs[1]) THEN detect_numeric_type_float(vs)
    ELSE IF IsStr(vs[1]) THEN "str"
    ELSE "json"

StorageTypes == {"bool", "int16", "int32", "float16", "float32", "str", "json"}
\* (An index for the four-byte types only.)
WideNumericTypes == {"int32", "float32"}
NumericTypes == {"int16", "int32", "float16", "float32"}

\* ------------------------------------------------------- ColumnCodec
\* Python's truth value of a JSON value.
Truthy(v) ==
    IF Kind(v) = "null" THEN FALSE
    ELSE IF Kind(v) = "bool" THEN v[2]
    ELSE IF Kind(v) \in {"int", "float"} THEN v[2] # 0
    ELSE v[2] # <<>>

\* struct.pack of an integer format takes an int (or bool) in range.
IsIntLike(v) == IsInt(v) \/ IsBool(v)

PackErr(e) == [err |-> e, blob |-> <<>>]
PackOk(b) == [err |-> "none", blob |-> b]

\* pack_column(values, col_type)
pack_column(vs, t) ==
    IF t = "int16" THEN
        (IF \E i \in 1..Len(vs) : ~IsIntLike(vs[i]) \/ ~InI16(vs[i])
         THEN PackErr("struct.error")
         ELSE PackOk(Flatten([i \in 1..Len(vs) |-> I16Bytes(Num(vs[i]))])))
    ELSE IF t = "int32" THEN
        (IF \E i \in 1..Len(vs) : ~IsIntLike(vs[i])
         THEN PackErr("struct.error")
         ELSE PackOk(Flatten([i \in 1..Len(vs) |-> I32Bytes(Num(vs[i]))])))
    ELSE IF t = "float16" THEN
        (IF \E i \in 1..Len(vs) : ~IsNumber(vs[i])
         THEN PackErr("TypeError")
         ELSE PackOk(Flatten([i \in 1..Len(vs) |-> F16Bytes(vs[i])])))
    ELSE IF t = "float32" THEN
        (IF \E i \in 1..Len(vs) : ~IsNumber(vs[i])
         THEN PackErr("struct.error")
         ELSE PackOk(Flatten([i \in 1..Len(vs) |-> F32Bytes(vs[i])])))
    ELSE IF t = "bool" THEN
        PackOk([i \in 1..Len(vs) |-> IF Truthy(vs[i]) THEN 1 ELSE 0])
    ELSE PackOk(Dumps(JList(vs)))

UnpackErr(e) == [err |-> e, col |-> <<>>]
UnpackOk(c) == [err |-> "none", col |-> c]

\* The k-byte items of a blob whose length is a multiple of k.
Chunks(b, k) == [i \in 1..(Len(b) \div k) |-> SubSeq(b, k * (i - 1) + 1, k * i)]

\* A str or json column is the list orjson.loads reads.
UnpackJson(r) ==
    IF r.err # "none" THEN UnpackErr(r.err)
    ELSE IF Kind(r.val) # "list" THEN UnpackErr("TypeError")
    ELSE UnpackOk(r.val[2])

\* The decoder's unpacking of a decompressed column, by the schema's type
\* name (a Python str): decode_from_bytes and JONXFile._decompress_column
\* hold the same chain.  Any other type name goes to orjson.loads.
UnpackColumn(b, t) ==
    IF t = "int16" THEN
        (IF Len(b) % 2 # 0 THEN UnpackErr("struct.error")
         ELSE UnpackOk([i \in 1..(Len(b) \div 2) |-> JInt(I16Value(Chunks(b, 2)[i]))]))
    ELSE IF t = "int32" THEN
        (IF Len(b) % 4 # 0 THEN UnpackErr("struct.error")
         ELSE UnpackOk([i \in 1..(Len(b) \div 4) |-> JInt(I32Value(Chunks(b, 4)[i]))]))
    ELSE IF t = "float16" THEN
        (IF Len(b) % 2 # 0 THEN UnpackErr("ValueError")
         ELSE UnpackOk([i \in 1..(Len(b) \div 2) |-> F16Value(Chunks(b, 2)[i])]))
    ELSE IF t = "float32" THEN
        (IF Len(b) % 4 # 0 THEN UnpackErr("struct.error")
         ELSE UnpackOk([i \in 1..(Len(b) \div 4) |-> F32Value(Chunks(b, 4)[i])]))
    ELSE IF t = "bool" THEN
        UnpackOk([i \in 1..Len(b) |-> JBool(b[i] # 0)])
    ELSE UnpackJson(Loads(b))

\* ------------------------------------------------------- IndexBuilder
\* sorted(range(n), key=lambda i: column[i]): a stable sort, modelled as
\* the insertion of each row position, in row order, after every position
\* already placed whose value is not greater.
\* (A sort that is not stable: the new position goes before its equals.)
RECURSIVE InsertBeforeEqual(_, _, _)
InsertBeforeEqual(idx, i, col) ==
    IF idx = <<>> THEN <<i>>
    ELSE IF NumLeq(col[i], col[Head(idx)]) THEN <<i>> \o idx
    ELSE <<Head(idx)>> \o InsertBeforeEqual(Tail(idx), i, col)

\* (A sort in descending order.)
RECURSIVE InsertDescending(_, _, _)
InsertDescending(idx, i, col) ==
    IF idx = <<>> THEN <<i>>
    ELSE IF NumLess(col[Head(idx)], col[i]) THEN <<i>> \o idx
    ELSE <<Head(idx)>> \o InsertDescending(Tail(idx), i, col)

RECURSIVE InsertStable(_, _, _)
InsertStable(idx, i, col) ==
    IF idx = <<>> THEN <<i>>
    ELSE IF NumLess(col[i], col[Head(idx)]) THEN <<i>> \o idx
    ELSE <<Head(idx)>> \o InsertStable(Tail(idx), i, col)

RECURSIVE SortPrefix(_, _)
SortPrefix(col, n) ==
    IF n = 0 THEN <<>> ELSE InsertStable(SortPrefix(col, n - 1), n, col)

\* The row positions 0..n-1 of a column of numbers in sorted order.
SortedIdx(col) == [k \in 1..Len(col) |-> SortPrefix(col, Len(col))[k] - 1]

\* ------------------------------------------------------- ContainerWriter
Magic == <<74, 79, 78, 88>>            \* b"JONX"
FormatVersion == 1
KeyFields == <<102, 105, 101, 108, 100, 115>>   \* "fields"
KeyTypes == <<116, 121, 112, 101, 115>>         \* "types"

\* The type names as Python strs.
TypeChars ==
    [bool    |-> <<98, 111, 111, 108>>,
     int16   |-> <<105, 110, 116, 49, 54>>,
     int32   |-> <<105, 110, 116, 51, 50>>,
     float16 |-> <<102, 108, 111, 97, 116, 49, 54>>,
     float32 |-> <<102, 108, 111, 97, 116, 51, 50>>,
     str     |-> <<115, 116, 114>>,
     json    |-> <<106, 115, 111, 110>>]

\* A record (dict) as its items <<key, value>>.
Keys(row) == [i \in 1..Len(row) |-> row[i][1]]
HasKey(row, f) == \E i \in 1..Len(row) : row[i][1] = f
Get(row, f) == row[CHOOSE i \in 1..Len(row) : row[i][1] = f][2]

EncErr(e, nd, np, nc) ==
    [err |-> e, out |-> <<>>, types |-> <<>>,
     work |-> [detect |-> nd, pack |-> np, compress |-> nc]]

\* The position of the first element of a sequence of strings that starts
\* with an error mark other than "none", or 0.
FirstBad(errs) ==
    IF \E i \in 1..Len(errs) : errs[i] # "none"
    THEN CHOOSE i \in 1..Len(errs) :
            errs[i] # "none" /\ \A j \in 1..(i - 1) : errs[j] = "none"
    ELSE 0

\* out.write(struct.pack("I", len(f))); out.write(f.encode("utf-8")); ...
IndexBlock(f, idx) ==
    PackU32(Len(f)) \o Utf8(f) \o PackU32(Len(idx)) \o idx

LengthPrefixed(block) == PackU32(Len(block)) \o block

\* Lines 121-147: the container written from the compressed blocks.
\* indexes holds, per field, the index block or <<>> for a field without.
WriteContainer(fields, types, compressed_columns, indexes) ==
    LET F == Len(fields)
        schema == JObj(<<
            <<KeyFields, JList([k \in 1..F |-> JStr(fields[k])])>>,
            <<KeyTypes, JObj([k \in 1..F |->
                              <<fields[k], JStr(TypeChars[types[k]])>>])>> >>)
        numIndexes == Cardinality({k \in 1..F : indexes[k] # <<>>})
    IN  [err |-> "none",
         out |-> Magic \o PackU32(FormatVersion)
                 \o LengthPrefixed(Compress(Dumps(schema)))
                 \o Flatten([k \in 1..F |-> LengthPrefixed(compressed_columns[k])])
                 \o PackU32(numIndexes)
                 \o Flatten(indexes),
         types |-> [k \in 1..F |-> <<fields[k], types[k]>>],
         work |-> [detect |-> F, pack |-> F, compress |-> F + numIndexes + 1]]

\* Lines 113-119: the compressed index of a numeric column, as the block
\* lines 141-145 write for it.
EncodeIndex(f, col) ==
    IndexBlock(f, Compress(Dumps(JList(
        [i \in 1..Len(col) |-> JInt(SortedIdx(col)[i])]))))

\* Lines 107-119: pack and compress every column, index the numeric ones.
EncodePacked(fields, columns, types, packs) ==
    LET bad == FirstBad([k \in 1..Len(fields) |-> packs[k].err])
    IN  IF bad # 0 THEN EncErr(packs[bad].err, Len(fields), bad, bad - 1)
        ELSE WriteContainer(fields, types,
                 [k \in 1..Len(fields) |-> Compress(packs[k].blob)],
                 [k \in 1..Len(fields) |->
                     IF types[k] \in NumericTypes
                     THEN EncodeIndex(fields[k], columns[k]) ELSE <<>>])

\* Lines 104-111: the types detected, then the columns packed.
EncodeTyped(fields, columns, types) ==
    LET bad == FirstBad([k \in 1..Len(fields) |->
                   IF types[k] \in StorageTypes THEN "none" ELSE types[k]])
    IN  IF bad # 0 THEN EncErr(types[bad], bad, 0, 0)
        ELSE EncodePacked(fields, columns, types,
                 [k \in 1..Len(fields) |-> pack_column(columns[k], types[k])])

\* Lines 101-105: the columns by the first record's keys; row[f] of a
\* record without the key f is a KeyError.
EncodeFields(rows, fields) ==
    IF \E k \in 1..Len(fields) : \E r \in 1..Len(rows) : ~HasKey(rows[r], fields[k])
    THEN EncErr("KeyError", 0, 0, 0)
    ELSE EncodeTyped(fields,
             [k \in 1..Len(fields) |-> [r \in 1..Len(rows) |-> Get(rows[r], fields[k])]],
             [k \in 1..Len(fields) |->
                 detect_type([r \in 1..Len(rows) |-> Get(rows[r], fields[k])])])

\* (No input test at all.)
AnyList(rows) == TRUE
\* The input test of encode_to_bytes (inputs here are always lists).
IsNonEmptyList(rows) == Len(rows) # 0

\* encode_to_bytes(json_data): the container, or the exception raised.
\* work counts the detect_type, pack_column and ZSTD.compress calls made.
\* (json_data[0] of an empty list is an IndexError.)
encode_to_bytes(rows) ==
    IF ~IsNonEmptyList(rows) THEN EncErr("ValueError", 0, 0, 0)
    ELSE IF rows = <<>> THEN EncErr("IndexError", 0, 0, 0)
    ELSE EncodeFields(rows, Keys(rows[1]))

\* ------------------------------------------------------- ContainerReader
\* The storage type a schema type name selects in the decoder's if/elif
\* chain; "other" is its final else branch.
CodecOf(tv) ==
    IF Kind(tv) = "str" /\ \E t \in StorageTypes \ {"str", "json"} : TypeChars[t] = tv[2]
    THEN CHOOSE t \in StorageTypes \ {"str", "json"} : TypeChars[t] = tv[2]
    ELSE "other"

\* offset += n, kept within one past the buffer: every slice from there on
\* is empty either way, and the sum stays within TLC's integers.
Advance(buf, offset, n) ==
    IF n > Len(buf) THEN Len(buf) + 1 ELSE Min2(offset + n, Len(buf) + 1)

DecErr(e, st) ==
    [err |-> e, stage |-> st, returned |-> FALSE, version |-> 0,
     fields |-> <<>>, types |-> <<>>, num_rows |-> 0, json_data |-> <<>>]

\* (A magic test that reads three bytes only.)
StartsWithMagic3(buf) == Slice(buf, 0, 3) = Slice(Magic, 0, 3)
\* data.startswith(b"JONX")
StartsWithMagic(buf) == Slice(buf, 0, 4) = Magic

\* One pass of the column loop of decode_from_bytes, given the column
\* block's length field and decompressed block: [err, offset, columns].
RECURSIVE ReadColumns(_, _, _, _, _, _)
StoreColumn(buf, fields, types, k, next, cols, col) ==
    IF col.err # "none" THEN [err |-> col.err, offset |-> next, columns |-> cols]
    ELSE ReadColumns(buf, fields, types, k + 1, next,
                     Append(cols, <<fields[k][2], col.col>>))

ReadColumn(buf, fields, types, k, offset, cols, size, blob) ==
    LET bad(e) == [err |-> e, offset |-> offset, columns |-> cols]
        field == fields[k]
    IN  IF size.err # "none" THEN bad(size.err)
        ELSE IF blob.err # "none" THEN bad(blob.err)
        ELSE IF Kind(field) # "str" \/ ~HasKey(types, field[2]) THEN bad("KeyError")
        ELSE StoreColumn(buf, fields, types, k,
                 Advance(buf, offset + 4, size.val), cols,
                 UnpackColumn(blob.blob, CodecOf(Get(types, field[2]))))

\* The column loop from field k on.
ReadColumns(buf, fields, types, k, offset, cols) ==
    IF k > Len(fields) THEN [err |-> "none", offset |-> offset, columns |-> cols]
    ELSE ReadColumn(buf, fields, types, k, offset, cols,
             UnpackU32(Slice(buf, offset, offset + 4)),
             Decompress(Slice(buf, offset + 4,
                 Advance(buf, offset + 4,
                         UnpackU32(Slice(buf, offset, offset + 4)).val))))

\* The index loop of decode_from_bytes: the blocks are stepped over, not
\* read.  The error raised, or "none".
RECURSIVE SkipIndexes(_, _, _)
SkipIndexes(buf, offset, n) ==
    IF n = 0 THEN "none"
    ELSE
    LET name_len == UnpackU32(Slice(buf, offset, offset + 4))
        o1 == Advance(buf, offset, 4 + name_len.val)
        idx_size == UnpackU32(Slice(buf, o1, o1 + 4))
    IN  IF name_len.err # "none" THEN name_len.err
        ELSE IF idx_size.err # "none" THEN idx_size.err
        ELSE SkipIndexes(buf, Advance(buf, o1, 4 + idx_size.val), n - 1)

\* Lines 67-80: the records rebuilt from the columns; columns[field][i]
\* beyond a column's end is an IndexError.
Reconstruct(version, fields, types, columns) ==
    LET num_rows == IF fields # <<>> THEN Len(Get(columns, fields[1])) ELSE 0
    IN  IF \E k \in 1..Len(fields) : Len(Get(columns, fields[k])) < num_rows
        THEN DecErr("IndexError", "rows")
        ELSE [err |-> "none", stage |-> "done", returned |-> TRUE,
              version |-> version,
              fields |-> fields,
              types |-> types,
              num_rows |-> num_rows,
              json_data |-> [i \in 1..num_rows |->
                  [k \in 1..Len(fields) |->
                      <<fields[k], Get(columns, fields[k])[i]>>]]]

\* Lines 57-65, after the column loop left cols.
AfterIndexes(skipped, version, fieldsV, typesV, columns) ==
    IF skipped # "none" THEN DecErr(skipped, "indexes")
    ELSE Reconstruct(version, [k \in 1..Len(fieldsV) |-> fieldsV[k][2]], typesV,
                     columns)

ReadIndexes(buf, version, fieldsV, typesV, cols) ==
    LET num_indexes == UnpackU32(Slice(buf, cols.offset, cols.offset + 4))
    IN  IF cols.err # "none" THEN DecErr(cols.err, "columns")
        ELSE IF num_indexes.err # "none" THEN DecErr(num_indexes.err, "indexes")
        ELSE AfterIndexes(SkipIndexes(buf, cols.offset + 4, num_indexes.val),
                          version, fieldsV, typesV, cols.columns)

\* Lines 21-55, given the parsed schema.
ReadBody(buf, version, offset, schema) ==
    IF schema.err # "none" THEN DecErr(schema.err, "schema")
    ELSE IF Kind(schema.val) # "obj" THEN DecErr("TypeError", "schema")
    ELSE IF ~HasKey(schema.val[2], KeyFields) \/ ~HasKey(schema.val[2], KeyTypes)
    THEN DecErr("KeyError", "schema")
    ELSE IF Kind(Get(schema.val[2], KeyFields)) # "list"
            \/ Kind(Get(schema.val[2], KeyTypes)) # "obj"
    THEN DecErr("TypeError", "schema")
    ELSE ReadIndexes(buf, version,
             Get(schema.val[2], KeyFields)[2], Get(schema.val[2], KeyTypes)[2],
             ReadColumns(buf, Get(schema.val[2], KeyFields)[2],
                         Get(schema.val[2], KeyTypes)[2], 1, offset, <<>>))

\* Line 18, given the decompressed schema block.
ParseSchema(buf, version, offset, frame) ==
    IF frame.err # "none" THEN DecErr(frame.err, "schema")
    ELSE ReadBody(buf, version, offset, Loads(frame.blob))

\* Lines 11-19, given the two header fields as unpacked.
ReadSchema(buf, version, schema_size) ==
    IF version.err # "none" THEN DecErr(version.err, "header")
    ELSE IF schema_size.err # "none" THEN DecErr(schema_size.err, "schema")
    ELSE ParseSchema(buf, version.val, Advance(buf, 12, schema_size.val),
                     Decompress(Slice(buf, 12, Advance(buf, 12, schema_size.val))))

\* decode_from_bytes(data): the dict returned, or the exception raised and
\* the stage of the read that raised it.
decode_from_bytes(buf) ==
    IF ~StartsWithMagic(buf) THEN DecErr("ValueError", "magic")
    ELSE ReadSchema(buf, UnpackU32(Slice(buf, 4, 8)), UnpackU32(Slice(buf, 8, 12)))

\* ------------------------------------------------------- JONXFile
\* bytes.decode(): strict UTF-8, [err, cps].
DecodedChar(cp, rest) ==
    IF rest.err # "none" THEN rest ELSE [err |-> "none", cps |-> <<cp>> \o rest.cps]

RECURSIVE Utf8Decode(_)
Utf8Decode(b) ==
    IF b = <<>> THEN [err |-> "none", cps |-> <<>>]
    ELSE IF b[1] < 128 THEN DecodedChar(b[1], Utf8Decode(Tail(b)))
    ELSE IF b[1] >= 194 /\ b[1] <= 223 /\ IsCont(At(b, 2))
    THEN DecodedChar((b[1] - 192) * 64 + (b[2] - 128),
                     Utf8Decode(SubSeq(b, 3, Len(b))))
    ELSE IF /\ b[1] >= 224 /\ b[1] <= 239 /\ IsCont(At(b, 2)) /\ IsCont(At(b, 3))
            /\ (b[1] - 224) * 4096 + (b[2] - 128) * 64 >= 2048
            /\ (b[1] - 224) * 4096 + (b[2] - 128) * 64 \notin 55296..57343
    THEN DecodedChar((b[1] - 224) * 4096 + (b[2] - 128) * 64 + (b[3] - 128),
                     Utf8Decode(SubSeq(b, 4, Len(b))))
    ELSE [err |-> "UnicodeDecodeError", cps |-> <<>>]

\* dict[k] = v on a dict kept as its items.
Put(dict, k, v) ==
    IF HasKey(dict, k)
    THEN [i \in 1..Len(dict) |-> IF dict[i][1] = k THEN <<k, v>> ELSE dict[i]]
    ELSE Append(dict, <<k, v>>)

FileErr(e) ==
    [err |-> e, fields |-> <<>>, types |-> <<>>,
     compressed_columns |-> <<>>, indexes |-> <<>>]

\* Lines 109-113: the compressed column blocks, kept as they are.
RECURSIVE LoadColumns(_, _, _, _, _)
LoadColumns(buf, fields, k, offset, cols) ==
    IF k > Len(fields) THEN [err |-> "none", offset |-> offset, columns |-> cols]
    ELSE LET col_size == UnpackU32(Slice(buf, offset, offset + 4))
         IN  IF col_size.err # "none"
             THEN [err |-> col_size.err, offset |-> offset, columns |-> cols]
             ELSE LoadColumns(buf, fields, k + 1,
                      Advance(buf, offset + 4, col_size.val),
                      Put(cols, fields[k],
                          Slice(buf, offset + 4,
                                Advance(buf, offset + 4, col_size.val))))

\* Lines 119-128: the compressed index blocks, by decoded name.
RECURSIVE LoadIndexes(_, _, _, _)
LoadIndex(buf, n, idx, o1, name, idx_size) ==
    IF name.err # "none" THEN [err |-> name.err, indexes |-> idx]
    ELSE IF idx_size.err # "none" THEN [err |-> idx_size.err, indexes |-> idx]
    ELSE LoadIndexes(buf, Advance(buf, o1 + 4, idx_size.val), n - 1,
             Put(idx, name.cps,
                 Slice(buf, o1 + 4, Advance(buf, o1 + 4, idx_size.val))))

LoadIndexName(buf, n, idx, offset, name_len) ==
    IF name_len.err # "none" THEN [err |-> name_len.err, indexes |-> idx]
    ELSE LoadIndex(buf, n, idx, Advance(buf, offset + 4, name_len.val),
             Utf8Decode(Slice(buf, offset + 4,
                              Advance(buf, offset + 4, name_len.val))),
             UnpackU32(Slice(buf, Advance(buf, offset + 4, name_len.val),
                             Advance(buf, offset + 4, name_len.val) + 4)))

LoadIndexes(buf, offset, n, idx) ==
    IF n = 0 THEN [err |-> "none", indexes |-> idx]
    ELSE LoadIndexName(buf, n, idx, offset,
                       UnpackU32(Slice(buf, offset, offset + 4)))

\* Lines 115-128, after the column loop.
LoadIndexSection(decoded, cols, num_indexes, indexes) ==
    IF num_indexes.err # "none" THEN FileErr(num_indexes.err)
    ELSE IF indexes.err # "none" THEN FileErr(indexes.err)
    ELSE [err |-> "none", fields |-> decoded.fields, types |-> decoded.types,
          compressed_columns |-> cols.columns, indexes |-> indexes.indexes]

LoadBlocks(buf, decoded, cols) ==
    IF cols.err # "none" THEN FileErr(cols.err)
    ELSE LoadIndexSection(decoded, cols,
             UnpackU32(Slice(buf, cols.offset, cols.offset + 4)),
             LoadIndexes(buf, cols.offset + 4,
                 UnpackU32(Slice(buf, cols.offset, cols.offset + 4)).val, <<>>))

\* Lines 96-113, given what decode_from_bytes made of the whole buffer.
LoadDecoded(buf, decoded, schema_size) ==
    IF decoded.err # "none" THEN FileErr(decoded.err)
    ELSE IF ~StartsWithMagic(buf) THEN FileErr("ValueError")
    ELSE IF schema_size.err # "none" THEN FileErr(schema_size.err)
    ELSE LoadBlocks(buf, decoded,
             LoadColumns(buf, decoded.fields, 1,
                         Advance(buf, 12, schema_size.val), <<>>))

\* JONXFile(path) on a file holding buf: the object, or the exception.
LoadFile(buf) ==
    LoadDecoded(buf, decode_from_bytes(buf), UnpackU32(Slice(buf, 8, 12)))

\* The column blocks decompressed while the file was opened: those of the
\* decode_from_bytes call of line 96, one per field.
DecompressedOnLoad(f) == IF f.err = "none" THEN f.fields ELSE <<>>

\* _decompress_column(field_name, compressed)
UnpackDecompressed(self, field_name, blob) ==
    IF blob.err # "none" THEN UnpackErr(blob.err)
    ELSE IF ~HasKey(self.types, field_name) THEN UnpackErr("KeyError")
    ELSE UnpackColumn(blob.blob, CodecOf(Get(self.types, field_name)))

DecompressColumn(self, field_name, compressed) ==
    UnpackDecompressed(self, field_name, Decompress(compressed))

\* get_column(field_name)
get_column(self, field_name) ==
    IF ~HasKey(self.compressed_columns, field_name) THEN UnpackErr("KeyError")
    ELSE DecompressColumn(self, field_name,
                          Get(self.compressed_columns, field_name))

\* Python's a < b: "less", "notless", or "TypeError" for operands that
\* have no order (numbers with numbers, strs with strs, lists with lists).
RECURSIVE PyCmp(_, _)
PyCmp(a, b) ==
    IF IsNumber(a) /\ IsNumber(b)
    THEN (IF NumLess(a, b) THEN "less" ELSE "notless")
    ELSE IF Kind(a) = Kind(b) /\ Kind(a) \in {"str", "list"}
    THEN LET x == a[2]
             y == b[2]
             same(i) == IF Kind(a) = "str" THEN x[i] = y[i] ELSE PyEq(x[i], y[i])
             common == Min2(Len(x), Len(y))
             diff == {i \in 1..common : ~same(i)}
             d == CHOOSE i \in diff : \A j \in diff : i <= j
         IN  IF diff = {}
             THEN (IF Len(x) < Len(y) THEN "less" ELSE "notless")
             ELSE IF Kind(a) = "str"
             THEN (IF x[d] < y[d] THEN "less" ELSE "notless")
             ELSE PyCmp(x[d], y[d])
    ELSE "TypeError"

AnswerErr(e) == [err |-> e, val |-> JNull]
AnswerOk(v) == [err |-> "none", val |-> v]

\* min(column): the first least value; a ValueError on an empty column.
RECURSIVE MinFrom(_, _, _)
MinFrom(col, i, cur) ==
    IF i > Len(col) THEN AnswerOk(cur)
    ELSE IF PyCmp(col[i], cur) = "TypeError" THEN AnswerErr("TypeError")
    ELSE MinFrom(col, i + 1, IF PyCmp(col[i], cur) = "less" THEN col[i] ELSE cur)

PyMin(col) == IF col = <<>> THEN AnswerErr("ValueError") ELSE MinFrom(col, 2, col[1])

\* column[idx[0]], idx being what orjson.loads made of the index block.
ColumnAtFirst(col, idx) ==
    IF idx.err # "none" THEN AnswerErr(idx.err)
    ELSE IF Kind(idx.val) \notin {"list", "str", "obj"} THEN AnswerErr("TypeError")
    ELSE IF Kind(idx.val) = "obj" THEN AnswerErr("KeyError")
    ELSE IF idx.val[2] = <<>> THEN AnswerErr("IndexError")
    ELSE IF Kind(idx.val) = "str" \/ ~IsIntLike(idx.val[2][1])
    THEN AnswerErr("TypeError")
    ELSE IF Num(idx.val[2][1]) >= Len(col) \/ Num(idx.val[2][1]) < -Len(col)
    THEN AnswerErr("IndexError")
    ELSE IF Num(idx.val[2][1]) >= 0 THEN AnswerOk(col[Num(idx.val[2][1]) + 1])
    ELSE AnswerOk(col[Len(col) + Num(idx.val[2][1]) + 1])

IndexOf(blob) == IF blob.err # "none" THEN [err |-> blob.err, val |-> JNull]
                 ELSE Loads(blob.blob)

\* Lines 161-164, given the column.
FindMinIn(self, field, column, use_index) ==
    IF column.err # "none" THEN AnswerErr(column.err)
    ELSE IF use_index /\ HasKey(self.indexes, field)
    THEN ColumnAtFirst(column.col, IndexOf(Decompress(Get(self.indexes, field))))
    ELSE PyMin(column.col)

\* find_min(field, use_index=...), column left to its default None.
find_min(self, field, use_index) ==
    FindMinIn(self, field, get_column(self, field), use_index)

\* ------------------------------------------------------- Preview
PreviewErr ==
    [err |-> "HTTPException", fields |-> <<>>, types |-> <<>>,
     num_rows |-> 0, estimated_size |-> 0]

RECURSIVE SumOf(_)
SumOf(ns) == IF ns = <<>> THEN 0 ELSE Head(ns) + SumOf(Tail(ns))

\* p.get(field): None for a record without the key.
GetOrNone(row, f) == IF HasKey(row, f) THEN Get(row, f) ELSE JNull

\* schema = {"fields": fields, "types": types}
SchemaOf(fields, types) ==
    JObj(<< <<KeyFields, JList([k \in 1..Len(fields) |-> JStr(fields[k])])>>,
            <<KeyTypes, JObj([k \in 1..Len(fields) |->
                              <<fields[k], JStr(TypeChars[types[k]])>>])>> >>)

\* c = zstd.ZstdCompressor(level=3); c.compress(blob).  The blocks of the
\* inputs here are too short to compress: stored raw, they give the same
\* frame at level 3 as at the encoder's level 7.
PreviewCompress(blob) == Compress(blob)

\* 4 + len(field.encode("utf-8")) + 4 + len(idx_compressed)
PreviewIndexSize(f, col) ==
    4 + Len(Utf8(f)) + 4
      + Len(PreviewCompress(Dumps(JList(
            [i \in 1..Len(col) |-> JInt(SortedIdx(col)[i])]))))

\* Lines 607-635, given the columns packed.
PreviewSized(rows, fields, columns, types, packs) ==
    IF \E k \in 1..Len(fields) : packs[k].err # "none" THEN PreviewErr
    ELSE [err |-> "none",
          fields |-> fields,
          types |-> [k \in 1..Len(fields) |-> <<fields[k], types[k]>>],
          num_rows |-> Len(rows),
          estimated_size |->
              8 + 4 + Len(PreviewCompress(Dumps(SchemaOf(fields, types))))
              + SumOf([k \in 1..Len(fields) |->
                         4 + Len(PreviewCompress(packs[k].blob))])
              + 4
              + SumOf([k \in 1..Len(fields) |->
                         IF types[k] \in {"int32", "float32"}
                         THEN PreviewIndexSize(fields[k], columns[k]) ELSE 0])]

\* Lines 604-617, given the types detected.
PreviewTyped(rows, fields, columns, types) ==
    IF \E k \in 1..Len(fields) : types[k] \notin StorageTypes THEN PreviewErr
    ELSE PreviewSized(rows, fields, columns, types,
             [k \in 1..Len(fields) |-> pack_column(columns[k], types[k])])

\* Lines 600-605.
PreviewFields(rows, fields) ==
    PreviewTyped(rows, fields,
        [k \in 1..Len(fields) |->
            [r \in 1..Len(rows) |-> GetOrNone(rows[r], fields[k])]],
        [k \in 1..Len(fields) |->
            detect_type([r \in 1..Len(rows) |-> GetOrNone(rows[r], fields[k])])])

\* preview(request): the dict returned, or the HTTPException every
\* exception of the body ends as.
preview(rows) ==
    IF Len(rows) = 0 THEN PreviewErr ELSE PreviewFields(rows, Keys(rows[1]))

\* ------------------------------------------------------------- inputs
NameA == <<97>>       \* "a"
NameE == <<233>>      \* "é": one code point, two UTF-8 bytes
NameZ == <<122>>      \* "z"

\* The field lists of the records: no field, one, or two in either order.
FieldLists == {<<>>, <<NameA>>, <<NameE>>, <<NameA, NameE>>, <<NameE, NameA>>}

\* The cells of one column of the records, all of one JSON type.
CellKinds ==
    {{JInt(1), JInt(40000)}, {JFloat(1, 2), JFloat(1, 10)}, {JBool(TRUE)},
     {JStr(<<120>>)}, {JNull}}

SeqsOf(S, n) == [1..n -> S]

\* The columns of r rows.
RecordColumns(r) == UNION {SeqsOf(K, r) : K \in CellKinds}

\* The uniformly keyed record lists of r rows over the fields fs.
UniformRecords(fs, r) ==
    {[i \in 1..r |-> [k \in 1..Len(fs) |-> <<fs[k], cols[k][i]>>]] :
        cols \in [1..Len(fs) -> RecordColumns(r)]}

Uniform ==
    UNION {UniformRecords(fs, r) : fs \in FieldLists, r \in 1..MaxRows}

\* The last record without its last key / with one more key.
DropLastKey(rows) ==
    [rows EXCEPT ![Len(rows)] = SubSeq(@, 1, Len(@) - 1)]
AddExtraKey(rows) ==
    [rows EXCEPT ![Len(rows)] = Append(@, <<NameZ, JInt(1)>>)]

NonUniform ==
    {DropLastKey(rows) : rows \in {u \in Uniform : Len(u) >= 2 /\ u[1] # <<>>}}
    \cup {AddExtraKey(rows) : rows \in {u \in Uniform : Len(u) >= 2}}

Inputs == {<<>>} \cup Uniform \cup NonUniform

\* Every record has exactly the keys of the first one.
UniformlyKeyed(rows) ==
    \A r \in 1..Len(rows) :
        {rows[r][k][1] : k \in 1..Len(rows[r])} = {rows[1][k][1] : k \in 1..Len(rows[1])}

\* The values of a column handed to detect_type, of any JSON type.
ValuePool ==
    {JInt(-32769), JInt(-32768), JInt(-1), JInt(32767), JInt(40000),
     JFloat(1, 10), JFloat(1, 2), JFloat(2469, 2000), JFloat(2049, 1),
     JFloat(65504, 1), JFloat(131009, 2), JFloat(-70000, 1),
     JBool(TRUE), JStr(<<120>>), JNull, JObj(<<<<NameA, JInt(1)>>>>),
     JList(<<JInt(1)>>)}

Columns == UNION {SeqsOf(ValuePool, n) : n \in 1..MaxLen}

\* The column of a field of the records.
InputColumn(rows, f) == [r \in 1..Len(rows) |-> Get(rows[r], f)]

\* A container laid out as the format has it, without index blocks, from
\* field names, type names (as Python strs) and unpacked columns, each
\* column packed by the codec named.
OtherTypeName == <<116, 101, 120, 116>>     \* "text"
CraftContainer(fields, typeNames, codecs, columns) ==
    Magic \o PackU32(FormatVersion)
    \o LengthPrefixed(Compress(Dumps(JObj(<<
           <<KeyFields, JList([k \in 1..Len(fields) |-> JStr(fields[k])])>>,
           <<KeyTypes, JObj([k \in 1..Len(fields) |->
                             <<fields[k], JStr(typeNames[k])>>])>> >>))))
    \o Flatten([k \in 1..Len(fields) |->
           LengthPrefixed(Compress(pack_column(columns[k], codecs[k]).blob))])
    \o PackU32(0)

\* The container of the encoded records with column k one value short, or
\* one value (its last, again) long.
RaggedContainer(rows, types, k, kind) ==
    CraftContainer(
        [j \in 1..Len(types) |-> types[j][1]],
        [j \in 1..Len(types) |-> TypeChars[types[j][2]]],
        [j \in 1..Len(types) |-> types[j][2]],
        [j \in 1..Len(types) |->
            IF j # k THEN InputColumn(rows, types[j][1])
            ELSE IF kind = "shorter"
            THEN SubSeq(InputColumn(rows, types[j][1]), 1, Len(rows) - 1)
            ELSE Append(InputColumn(rows, types[j][1]),
                        InputColumn(rows, types[j][1])[Len(rows)])])

\* The container of the encoded records with the type of field k declared
\* under a name no codec has.
BadTypeContainer(rows, types, k) ==
    CraftContainer(
        [j \in 1..Len(types) |-> types[j][1]],
        [j \in 1..Len(types) |->
            IF j = k THEN OtherTypeName ELSE TypeChars[types[j][2]]],
        [j \in 1..Len(types) |-> types[j][2]],
        [j \in 1..Len(types) |-> InputColumn(rows, types[j][1])])

\* ---------------------------------------------------------- the machine
NoEncoded == EncErr("idle", 0, 0, 0)
NoResult == DecErr("idle", "idle")
NoPacked == PackErr("idle")
NoUnpacked == UnpackErr("idle")
NoPreview == [PreviewErr EXCEPT !.err = "idle"]
NoFile ==
    [err |-> "idle", fields |-> <<>>, types |-> <<>>,
     compressed_columns |-> <<>>, indexes |-> <<>>]
NoAnswer ==
    [op |-> "idle", field |-> <<>>, use_index |-> FALSE,
     err |-> "idle", val |-> JNull]

IdleFile ==
    /\ tamper = "none"
    /\ preview_result = NoPreview
    /\ file = NoFile
    /\ decompressed = <<>>
    /\ answer = NoAnswer

IdlePipeline ==
    /\ json_data = <<>>
    /\ encoded = NoEncoded
    /\ data = <<>>
    /\ result = NoResult
    /\ pc = "idle"
    /\ IdleFile

IdleColumn ==
    /\ values = <<>>
    /\ col_type = "none"
    /\ packed = NoPacked
    /\ unpacked = NoUnpacked
    /\ sorted_idx = <<>>
    /\ cpc = "idle"

fileVars == <<tamper, preview_result, file, decompressed, answer>>
pipeVars == <<json_data, encoded, data, result, pc, fileVars>>
colVars == <<values, col_type, packed, unpacked, sorted_idx, cpc>>

Init ==
    /\ json_data \in Inputs
    /\ encoded = NoEncoded
    /\ data = <<>>
    /\ result = NoResult
    /\ pc = "input"
    /\ IdleFile
    /\ IdleColumn

\* encode_to_bytes(json_data)
Encode ==
    /\ pc = "input"
    /\ encoded' = encode_to_bytes(json_data)
    /\ pc' = "encoded"
    /\ UNCHANGED <<json_data, data, result, fileVars, colVars>>

\* decode_from_bytes on a buffer.
DecodeBuffer(buf) ==
    /\ pc = "encoded"
    /\ encoded.err = "none"
    /\ data' = buf
    /\ result' = decode_from_bytes(buf)
    /\ pc' = "decoded"
    /\ UNCHANGED <<json_data, encoded, fileVars, colVars>>

\* The container as written.
Decode == DecodeBuffer(encoded.out)

\* The container cut before its final byte.
DecodeTruncated ==
    \E k \in 0..(Len(encoded.out) - 1) : DecodeBuffer(Slice(encoded.out, 0, k))

\* The container with one byte of its magic tag changed.
DecodeBadMagic ==
    \E i \in 1..4 : \E b \in {0, Magic[i] + 32} :
        DecodeBuffer([encoded.out EXCEPT ![i] = b])

\* The container with another version field.
DecodeOtherVersion ==
    \E v \in {0, 2, 258} :
        DecodeBuffer(Slice(encoded.out, 0, 4) \o PackU32(v)
                     \o Slice(encoded.out, 8, Len(encoded.out)))

\* decode_from_bytes on a container made by hand.
DecodeCrafted(buf, how) ==
    /\ pc = "encoded"
    /\ encoded.err = "none"
    /\ data' = buf
    /\ result' = decode_from_bytes(buf)
    /\ tamper' = how
    /\ pc' = "decoded"
    /\ UNCHANGED <<json_data, encoded, preview_result, file, decompressed,
                   answer, colVars>>

\* A container whose columns do not all hold the same number of values.
DecodeRagged ==
    /\ Len(encoded.types) >= 2
    /\ \E k \in 1..Len(encoded.types) : \E kind \in {"shorter", "longer"} :
           DecodeCrafted(RaggedContainer(json_data, encoded.types, k, kind), kind)

\* A container whose schema declares a type name without codec.
DecodeBadType ==
    \E k \in 1..Len(encoded.types) :
        DecodeCrafted(BadTypeContainer(json_data, encoded.types, k), "badtype")

\* JONXFile(path) on a file that holds buf.
OpenBuffer(buf, how) ==
    /\ pc = "encoded"
    /\ encoded.err = "none"
    /\ data' = buf
    /\ file' = LoadFile(buf)
    /\ decompressed' = DecompressedOnLoad(LoadFile(buf))
    /\ tamper' = how
    /\ pc' = "opened"
    /\ UNCHANGED <<json_data, encoded, result, preview_result, answer, colVars>>

Open == OpenBuffer(encoded.out, "none")

OpenBadType ==
    \E k \in 1..Len(encoded.types) :
        OpenBuffer(BadTypeContainer(json_data, encoded.types, k), "badtype")

\* A call on the open file: the block of the field asked for is
\* decompressed, and the column is handed out or searched.
Called(op, field, use_index, r) ==
    /\ answer' = [op |-> op, field |-> field, use_index |-> use_index,
                  err |-> r.err, val |-> r.val]
    /\ decompressed' = Append(decompressed, field)
    /\ UNCHANGED <<json_data, encoded, data, result, pc, tamper,
                   preview_result, file, colVars>>

CanCall ==
    /\ pc = "opened"
    /\ file.err = "none"
    /\ Len(decompressed) < Len(file.fields) + MaxCalls

ColumnAnswer(c) == [err |-> c.err, val |-> JList(c.col)]

GetColumn ==
    /\ CanCall
    /\ \E k \in 1..Len(file.fields) :
           Called("get_column", file.fields[k], FALSE,
                  ColumnAnswer(get_column(file, file.fields[k])))

FindMin ==
    /\ CanCall
    /\ \E k \in 1..Len(file.fields) : \E use_index \in BOOLEAN :
           Called("find_min", file.fields[k], use_index,
                  find_min(file, file.fields[k], use_index))

\* preview on the records given to the encoder.
Preview ==
    /\ pc = "encoded"
    /\ preview_result' = preview(json_data)
    /\ pc' = "previewed"
    /\ UNCHANGED <<json_data, encoded, data, result,
                   tamper, file, decompressed, answer, colVars>>

Next ==
    \/ Encode
    \/ Decode
    \/ DecodeTruncated
    \/ DecodeBadMagic
    \/ DecodeOtherVersion
    \/ DecodeRagged
    \/ DecodeBadType
    \/ Open
    \/ OpenBadType
    \/ GetColumn
    \/ FindMin
    \/ Preview

Spec == Init /\ [][Next]_vars

\* ------------------------------------------- the column functions alone
ColumnInit ==
    /\ IdlePipeline
    /\ values \in Columns
    /\ col_type = "none"
    /\ packed = NoPacked
    /\ unpacked = NoUnpacked
    /\ sorted_idx = <<>>
    /\ cpc = "col"

\* detect_type(values)
Detect ==
    /\ cpc = "col"
    /\ col_type' = detect_type(values)
    /\ cpc' = "typed"
    /\ UNCHANGED <<values, packed, unpacked, sorted_idx, pipeVars>>

\* pack_column(values, col_type)
Pack ==
    /\ cpc = "typed"
    /\ col_type \in StorageTypes
    /\ packed' = pack_column(values, col_type)
    /\ cpc' = "packed"
    /\ UNCHANGED <<values, col_type, unpacked, sorted_idx, pipeVars>>

\* The encoder's index of a numeric column.
BuildIndex ==
    /\ cpc = "packed"
    /\ packed.err = "none"
    /\ col_type \in NumericTypes
    /\ sorted_idx' = SortedIdx(values)
    /\ cpc' = "indexed"
    /\ UNCHANGED <<values, col_type, packed, unpacked, pipeVars>>

\* The decoder's unpacking of the packed column.
Unpack ==
    /\ \/ cpc = "indexed"
       \/ cpc = "packed" /\ packed.err = "none" /\ col_type \notin NumericTypes
    /\ unpacked' = UnpackColumn(packed.blob, col_type)
    /\ cpc' = "unpacked"
    /\ UNCHANGED <<values, col_type, packed, sorted_idx, pipeVars>>

ColumnNext ==
    \/ Detect
    \/ Pack
    \/ BuildIndex
    \/ Unpack

ColumnSpec == ColumnInit /\ [][ColumnNext]_vars

\* =================================================================== claims
\* The fields of the first record, and the columns detect_type is given.
FirstKeys(rows) == Keys(rows[1])
ColumnOf(rows, f) == [r \in 1..Len(rows) |-> Get(rows[r], f)]

\* The values of a column fit losslessly in the storage type detect_type
\* chooses for it: packed and unpacked, the column is itself again.
FitsLosslessly(col) ==
    /\ detect_type(col) \in StorageTypes
    /\ pack_column(col, detect_type(col)).err = "none"
    /\ UnpackColumn(pack_column(col, detect_type(col)).blob, detect_type(col))
           = UnpackOk(col)

LosslessInput(rows) ==
    /\ rows # <<>>
    /\ UniformlyKeyed(rows)
    /\ \A k \in 1..Len(FirstKeys(rows)) :
           FitsLosslessly(ColumnOf(rows, FirstKeys(rows)[k]))

DecodedWhole == pc = "decoded" /\ data = encoded.out

\* C1: for every non-empty, uniformly keyed record list whose values fit
\* losslessly in the detected storage types, decoding the encoded container
\* succeeds and returns records equal to the input (rows, field order and
\* cells), whatever the field names, non-ASCII ones included.
C1_RoundTrip ==
    (DecodedWhole /\ LosslessInput(json_data))
        => /\ result.err = "none"
           /\ result.num_rows = Len(json_data)
           /\ result.fields = FirstKeys(json_data)
           /\ result.json_data = json_data

\* The buffer decoded is the container cut before its final byte.
ProperPrefix ==
    /\ pc = "decoded"
    /\ Len(data) < Len(encoded.out)
    /\ data = Slice(encoded.out, 0, Len(data))

\* C2: decode_from_bytes on any proper prefix of a container written by
\* encode_to_bytes fails with an error and returns nothing, also when the
\* cut lies inside the index section.
C2_TruncationFails == ProperPrefix => result.err # "none" /\ ~result.returned

\* C3: encode_to_bytes fails whenever a record's key set differs from the
\* first record's, be it a missing key or an extra key.
C3_NonUniformRejected ==
    (pc # "input" /\ json_data # <<>> /\ ~UniformlyKeyed(json_data))
        => encoded.err # "none" /\ encoded.out = <<>>

\* C4: encode_to_bytes on an empty record list fails with the invalid-input
\* error (ValueError), before any detect_type, pack_column or compress call
\* and without any output bytes.
C4_EmptyRejected ==
    (pc # "input" /\ json_data = <<>>)
        => /\ encoded.err = "ValueError"
           /\ encoded.out = <<>>
           /\ encoded.work = [detect |-> 0, pack |-> 0, compress |-> 0]

C4_Witness == pc = "encoded" /\ json_data = <<>> /\ encoded.err # "none"

\* C5: a buffer whose first four bytes are not JONX makes decode_from_bytes
\* fail with the format error (ValueError) at the magic test, before the
\* schema or any column is read, and nothing is returned.
C5_BadMagicRejected ==
    (pc = "decoded" /\ Slice(data, 0, 4) # Magic)
        => /\ result.err = "ValueError"
           /\ result.stage = "magic"
           /\ ~result.returned
           /\ result.fields = <<>> /\ result.types = <<>>
           /\ result.json_data = <<>> /\ result.version = 0

\* An otherwise valid container whose fourth magic byte alone is changed.
C5_Witness ==
    /\ pc = "decoded"
    /\ Len(data) = Len(encoded.out)
    /\ Slice(data, 0, 3) = Slice(Magic, 0, 3)
    /\ data[4] # Magic[4]
    /\ Slice(data, 4, Len(data)) = Slice(encoded.out, 4, Len(data))
    /\ result.err = "ValueError"

\* C6: a buffer that starts with the magic tag and whose version field is
\* not 1 makes decode_from_bytes fail instead of returning records.
C6_UnknownVersionRejected ==
    (/\ pc = "decoded"
     /\ Slice(data, 0, 4) = Magic
     /\ Len(data) >= 8
     /\ Slice(data, 4, 8) # PackU32(1))
        => result.err # "none" /\ ~result.returned

InHalfRange(v) == -65504 * Den(v) <= Num(v) /\ Num(v) <= 65504 * Den(v)
ThreeDecimals(v) == 1000 % Den(v) = 0

FitsHalf(v) == InHalfRange(v) /\ ThreeDecimals(v)

C9_Float16Lossless ==
    (cpc = "unpacked" /\ col_type = "float16" /\ unpacked.err = "none")
        => /\ Len(unpacked.col) = Len(values)
           /\ \A i \in 1..Len(values) : PyEq(unpacked.col[i], values[i])

\* C10: the index built for a numeric column of n values is a permutation
\* of 0..n-1, visits the values in non-decreasing order, and keeps rows of
\* equal value in their row order.
C10_IndexSorted ==
    (cpc \in {"indexed", "unpacked"} /\ col_type \in NumericTypes)
        => /\ Len(sorted_idx) = Len(values)
           /\ {sorted_idx[k] : k \in 1..Len(sorted_idx)} = 0..(Len(values) - 1)
           /\ \A a, b \in 1..Len(sorted_idx) :
                a < b =>
                  /\ NumLeq(values[sorted_idx[a] + 1], values[sorted_idx[b] + 1])
                  /\ NumEq(values[sorted_idx[a] + 1], values[sorted_idx[b] + 1])
                       => sorted_idx[a] < sorted_idx[b]

\* A column with two equal values after a greater one.
C10_Witness ==
    /\ cpc = "indexed"
    /\ values = <<JInt(40000), JInt(-1), JInt(-1)>>
    /\ sorted_idx = <<1, 2, 0>>

\* The offset after n length-prefixed blocks that start at offset.
RECURSIVE SkipBlocks(_, _, _)
SkipBlocks(buf, offset, n) ==
    IF n = 0 THEN offset
    ELSE SkipBlocks(buf,
             offset + 4 + UnpackU32(Slice(buf, offset, offset + 4)).val, n - 1)

\* What follows the header, the schema block and the F column blocks.
IndexSection(buf, F) == Slice(buf, SkipBlocks(buf, 8, F + 1), Len(buf))

\* s is made of one block per name, in order and nothing else: a four-byte
\* field, the UTF-8 bytes of the name, the size of the index, the index.
RECURSIVE NamedBlocks(_, _)
NamedBlocks(s, names) ==
    IF names = <<>> THEN s = <<>>
    ELSE LET n == Len(Utf8(Head(names)))
             size == UnpackU32(Slice(s, 4 + n, 8 + n))
         IN  /\ Slice(s, 4, 4 + n) = Utf8(Head(names))
             /\ size.err = "none"
             /\ Len(s) >= 8 + n + size.val
             /\ NamedBlocks(Slice(s, 8 + n + size.val, Len(s)), Tail(names))

\* The fields the encoder typed int16, int32, float16 or float32, in order.
FieldsTyped(types, T) ==
    LET sel == SelectSeq(types, LAMBDA p : p[2] \in T)
    IN  [k \in 1..Len(sel) |-> sel[k][1]]

IndexSectionIs(sec, names) ==
    /\ Slice(sec, 0, 4) = PackU32(Len(names))
    /\ NamedBlocks(Slice(sec, 4, Len(sec)), names)

\* C11: the index section of every container encode_to_bytes writes holds
\* num_indexes = the number of int16, int32, float16 and float32 columns,
\* then exactly one block for each of them, in field order, carrying the
\* UTF-8 name of its column, and no block for a bool, str or json column.
C11_IndexBlocksForNumeric ==
    (pc # "input" /\ encoded.err = "none")
        => IndexSectionIs(
               IndexSection(encoded.out, Len(encoded.types)),
               FieldsTyped(encoded.types,
                           {"int16", "int32", "float16", "float32"}))

\* An int16 column named "é" next to a str column.
C11_Witness ==
    /\ pc = "encoded"
    /\ encoded.err = "none"
    /\ encoded.types = <<<<NameE, "int16">>, <<NameA, "str">>>>

\* C12: for every non-empty, uniformly keyed record list, preview reports
\* the types encode_to_bytes detects and, as estimated_size, the byte
\* length of the container encode_to_bytes writes for the same records.
C12_PreviewSizeExact ==
    (/\ pc = "previewed"
     /\ json_data # <<>>
     /\ UniformlyKeyed(json_data)
     /\ encoded.err = "none")
        => /\ preview_result.err = "none"
           /\ preview_result.types = encoded.types
           /\ preview_result.estimated_size = Len(encoded.out)

\* C13: a container whose decompressed columns do not all hold the same
\* number of values makes decode_from_bytes fail, whether a later column
\* is shorter or longer than the first; no records are returned.
C13_RaggedColumnsRejected ==
    (pc = "decoded" /\ tamper \in {"shorter", "longer"})
        => result.err # "none" /\ ~result.returned

\* The schema type name of a field of the open file.
DeclaredType(f) == Get(file.types, f)[2]

\* C14: a container whose schema declares a type name that is none of bool,
\* int16, int32, float16, float32, str, json makes decode_from_bytes fail,
\* and makes get_column fail for that field: the column is never decoded
\* with the codec of another type.
C14_UnknownTypeRejected ==
    /\ (pc = "decoded" /\ tamper = "badtype")
         => result.err # "none" /\ ~result.returned
    /\ (/\ pc = "opened" /\ tamper = "badtype" /\ file.err = "none"
        /\ answer.op = "get_column"
        /\ DeclaredType(answer.field) = OtherTypeName)
         => answer.err # "none"

\* The values of the column the open file holds for a field.
ColumnValues(f) == get_column(file, f).col

\* C15: on a file opened on a container encode_to_bytes wrote,
\* find_min(field, use_index=True) gives what find_min(field,
\* use_index=False) gives; for an indexed field that is a value of the
\* decompressed column that no value of the column is less than.
C15_FindMinByIndex ==
    (/\ pc = "opened" /\ tamper = "none" /\ file.err = "none"
     /\ answer.op = "find_min" /\ answer.use_index)
        => /\ [err |-> answer.err, val |-> answer.val]
                = find_min(file, answer.field, FALSE)
           /\ HasKey(file.indexes, answer.field)
                => /\ answer.err = "none"
                   /\ \E i \in 1..Len(ColumnValues(answer.field)) :
                          ColumnValues(answer.field)[i] = answer.val
                   /\ \A i \in 1..Len(ColumnValues(answer.field)) :
                          ~NumLess(ColumnValues(answer.field)[i], answer.val)

\* The column [40000, 1] searched through its index.
C15_Witness ==
    /\ pc = "opened" /\ tamper = "none" /\ file.err = "none"
    /\ answer.op = "find_min" /\ answer.use_index
    /\ HasKey(file.indexes, answer.field)
    /\ ColumnValues(answer.field) = <<JInt(40000), JInt(1)>>
    /\ answer.val = JInt(1)

\* C16: opening a JONXFile decompresses no column block; afterwards each
\* get_column or find_min call decompresses the block of the field asked
\* for and no other.
C16_LazyColumns ==
    (pc = "opened" /\ file.err = "none")
        => /\ answer.op = "idle" => decompressed = <<>>
           /\ answer.op # "idle" =>
                /\ Len(decompressed) \in 1..MaxCalls
                /\ decompressed[Len(decompressed)] = answer.field

\* Where a cursor ends that starts at an index block and advances by the
\* name_len and idx_size it reads, n blocks long; one past the buffer when
\* it leaves the buffer.
RECURSIVE WalkIndexBlocks(_, _, _)
WalkIndexBlocks(buf, offset, n) ==
    IF n = 0 THEN offset
    ELSE WalkIndexBlocks(buf,
             Advance(buf,
                 Advance(buf, offset + 4,
                         UnpackU32(Slice(buf, offset, offset + 4)).val) + 4,
                 UnpackU32(Slice(buf,
                     Advance(buf, offset + 4,
                             UnpackU32(Slice(buf, offset, offset + 4)).val),
                     Advance(buf, offset + 4,
                             UnpackU32(Slice(buf, offset, offset + 4)).val) + 4)).val),
             n - 1)

\* The name_len of the block of each name, in order, is the number of
\* UTF-8 bytes of the name written after it.
RECURSIVE ExactNameLens(_, _)
ExactNameLens(s, names) ==
    names # <<>> =>
        /\ Slice(s, 0, 4) = PackU32(Len(Utf8(Head(names))))
        /\ ExactNameLens(
               Slice(s, 8 + Len(Utf8(Head(names)))
                          + UnpackU32(Slice(s, 4 + Len(Utf8(Head(names))),
                                            8 + Len(Utf8(Head(names))))).val,
                     Len(s)),
               Tail(names))

ExactIndexSection(buf, sec, names) ==
    /\ ExactNameLens(Slice(sec, 4, Len(sec)), names)
    /\ WalkIndexBlocks(buf, Len(buf) - Len(sec) + 4, Len(names)) = Len(buf)

\* C17: in every container encode_to_bytes writes, the name_len of every
\* index block is the number of bytes of the UTF-8 name that follows it, so
\* that a cursor advanced by each declared length reads every later length
\* field in place and ends exactly at the end of the buffer.
C17_LengthPrefixesExact ==
    (pc # "input" /\ encoded.err = "none")
        => ExactIndexSection(
               encoded.out,
               IndexSection(encoded.out, Len(encoded.types)),
               FieldsTyped(encoded.types,
                           {"int16", "int32", "float16", "float32"}))

====
